---- MODULE Spec2Model ----
(***************************************************************************)
(* A model of src/lang/tlang.h: the Tlang expression IR, its builder, the  *)
(* vectorizer, the SIMD code emitter, the kernel-id allocator and the SLP  *)
(* grouper.                                                                *)
(*                                                                         *)
(* Nodes live in an arena (a sequence); the index of a node is its         *)
(* identity (the pointer held by an Expr), 0 is the null Expr.  var_name   *)
(* is the number k of "var_{:04d}", NoName is the empty string.  Emitted   *)
(* source is a sequence of instruction records, one per fmt::format line   *)
(* of the loop body.  Positions in inst / groups are 1-based.              *)
(***************************************************************************)
EXTENDS Integers, Sequences, FiniteSets, TLC

VARIABLES
  nodes,        \* the arena of user-built (scalar) nodes
  root,         \* the root Expr handed to run/SLP (0: null, no store yet)
  builder,      \* outcome of the last builder call: "none", "ok", "abort"
  code_gen_id,  \* static int id of get_code_gen_id
  var_count,    \* CodeGen::var_count of the CodeGen in use
  last_id,      \* CodeGen::id of the most recent run that got one (-1: none)
  result,       \* outcome of the most recent run
  prev,         \* outcome of the run before it
  inst,         \* CodeGen::inst
  groups,       \* CodeGen::groups
  grouped,      \* CodeGen::grouped
  phase,        \* "build", "ran", "ran2", "grouping", "slp"
  slp           \* the locals of the SLP call in progress, see NoCall

vars == <<nodes, root, builder, code_gen_id, var_count, last_id, result, prev,
          inst, groups, grouped, phase, slp>>

-----------------------------------------------------------------------------
(* Bounds of the model *)

MaxExprs == 2
MaxStores == 2
MaxG == 2
MaxN == 1
MaxLoads == 3
MaxOffset == 2
MaxCalls == 2

(* Program constants *)

NumStreams == 3
KernelIdCap == 10000
VarCap == 10000
NoName == -1

-----------------------------------------------------------------------------
(* C++ integer division and remainder (truncation toward zero) *)

Abs(x) == IF x < 0 THEN -x ELSE x

CDiv(a, b) ==
  IF (a >= 0) = (b > 0) THEN Abs(a) \div Abs(b) ELSE -(Abs(a) \div Abs(b))

CMod(a, b) == a - b * CDiv(a, b)

-----------------------------------------------------------------------------
(* struct Address *)

Addr(s, ci, cm, cc, gs, st) ==
  [stream_id |-> s, coeff_i |-> ci, coeff_imax |-> cm, coeff_const |-> cc,
   coeff_aosoa_group_size |-> gs, coeff_aosoa_stride |-> st]

DefaultAddress == Addr(-1, 0, 0, 0, 0, 0)

initialized(a) == a.stream_id # -1

same_type(a, o) ==
  /\ a.stream_id = o.stream_id
  /\ a.coeff_i = o.coeff_i
  /\ a.coeff_imax = o.coeff_imax
  /\ a.coeff_aosoa_group_size = o.coeff_aosoa_group_size
  /\ a.coeff_aosoa_stride = o.coeff_aosoa_stride

\* Address::operator==; the last conjunct compares this->coeff_aosoa_stride
\* with o.coeff_aosoa_group_size, as the source does.
AddressEq(a, o) ==
  /\ a.stream_id = o.stream_id
  /\ a.coeff_i = o.coeff_i
  /\ a.coeff_imax = o.coeff_imax
  /\ a.coeff_const = o.coeff_const
  /\ a.coeff_aosoa_group_size = o.coeff_aosoa_group_size
  /\ a.coeff_aosoa_stride = o.coeff_aosoa_group_size

offset(a) == a.coeff_const

eval(a, i, n) ==
  IF a.coeff_aosoa_stride # 0
    THEN a.coeff_i * i + a.coeff_imax * n + a.coeff_const +
         CDiv(i, a.coeff_aosoa_group_size) * a.coeff_aosoa_stride
    ELSE a.coeff_i * i + a.coeff_imax * n + a.coeff_const

-----------------------------------------------------------------------------
(* class Node, class Expr and the builder *)

BinaryTypes == {"mul", "add", "sub", "div"}

NewNode(t) ==
  [type |-> t, addr |-> DefaultAddress, ch |-> <<>>, members |-> <<>>,
   var_name |-> NoName, is_vectorized |-> FALSE]

\* Node(Type type, Expr ch0, Expr ch1)
BinaryNode(t, ch0, ch1) == [NewNode(t) EXCEPT !.ch = <<ch0, ch1>>]

\* load(Address): the two TC_ASSERTs
LoadOk(a) == initialized(a) /\ 0 <= a.stream_id /\ a.stream_id < NumStreams

LoadNode(a) == [NewNode("load") EXCEPT !.addr = a]

\* Expr::store on the root Expr: the combine node is made on the first store,
\* then the store node, which is appended to the combine's children.
StoreNodes(h, r, e, a) ==
  LET h1 == IF r = 0 THEN Append(h, NewNode("combine")) ELSE h
      r1 == IF r = 0 THEN Len(h1) ELSE r
      n  == [NewNode("store") EXCEPT !.ch = <<e>>, !.addr = a]
      h2 == Append(h1, n)
  IN  [nodes |-> [h2 EXCEPT ![r1].ch = Append(@, Len(h2))], root |-> r1]

\* CodeGen::prior_to
prior_to(h, a, b) ==
  /\ same_type(h[a].addr, h[b].addr)
  /\ offset(h[a].addr) + 1 = offset(h[b].addr)

-----------------------------------------------------------------------------
(* CodeGen::vectorize *)

\* Every step returns the heap it leaves behind, also when it aborts.
Fail(h, e) == [ok |-> FALSE, err |-> e, heap |-> h, expr |-> 0]
Done(h, x) == [ok |-> TRUE, err |-> "", heap |-> h, expr |-> x]

\* The isomorphism loop of vectorize(Expr&) over expr->members.
RECURSIVE IsoCheck(_, _, _, _)
IsoCheck(h, mem, s2v, m) ==
  IF m > Len(mem) THEN "ok"
  ELSE IF mem[m] \in DOMAIN s2v THEN "member already vectorized"
  ELSE IF m > 1 /\ h[mem[m]].type # h[mem[1]].type THEN "type == member->type"
  ELSE IF m > 1 /\ Len(h[mem[m]].ch) # Len(h[mem[1]].ch)
    THEN "vectorized_children.size() == member->ch.size()"
  ELSE IsoCheck(h, mem, s2v, m + 1)

\* expr->addr = expr->members[0]->addr, with the AOSOA fill-in
PackAddr(a, num_groups) ==
  IF a.coeff_aosoa_group_size = 0
    THEN [a EXCEPT !.coeff_aosoa_group_size = num_groups,
                   !.coeff_aosoa_stride = 0]
    ELSE a

RECURSIVE VectorizeExpr(_, _, _, _)
RECURSIVE VectorizeChildren(_, _, _, _, _, _)

\* void vectorize(Expr &expr); .expr is the Expr the reference holds on return
VectorizeExpr(h, e, cg, s2v) ==
  LET mem == h[e].members IN
  IF mem[1] \in DOMAIN s2v
    THEN LET existing == s2v[mem[1]] IN
         IF h[existing].members # mem
           THEN Fail(h, "existing->members == expr->members")
           ELSE Done(h, existing)
    ELSE
      LET h1  == [h EXCEPT ![e].is_vectorized = TRUE]
          iso == IsoCheck(h1, mem, s2v, 1)
      IN
      IF iso # "ok" THEN Fail(h1, iso)
      ELSE IF Len(mem) % cg.group_size # 0
        THEN Fail(h1, "members.size() % group_size == 0")
      ELSE
        LET r == VectorizeChildren(h1, e, 1, Len(h1[mem[1]].ch), cg, s2v) IN
        IF ~r.ok THEN r
        ELSE Done([r.heap EXCEPT ![e].addr =
                      PackAddr(r.heap[mem[1]].addr, cg.num_groups)], e)

\* the loop over vectorized_children of vectorize(Expr&)
VectorizeChildren(h, e, i, nch, cg, s2v) ==
  IF i > nch THEN Done(h, e)
  ELSE
    LET mem == h[e].members
        vc  == [j \in 1..Len(mem) |-> h[mem[j]].ch[i]]
        ch  == Len(h) + 1
        h1  == Append(h, [NewNode(h[vc[1]].type) EXCEPT !.members = vc])
        h2  == [h1 EXCEPT ![e].ch = Append(@, ch)]
        r   == VectorizeExpr(h2, ch, cg, s2v)
    IN  IF ~r.ok THEN r ELSE VectorizeChildren(r.heap, e, i + 1, nch, cg, s2v)

\* What a read past the end of root->members can yield: the process crashes,
\* or prior_to / operator== see garbage and answer either way.
UBOutcomes == {"crash", "prior_to", "same", "neither"}

\* The member loop of vectorize(Expr&, int, int) for chunk k, with i the
\* (0-based) index into expr->ch as in the source.  root->members is indexed
\* by that same i, so for k >= 1 both reads are past the end of the vector and
\* the outcome is drawn by ub.  st = [has_prior_to, has_same]
RECURSIVE ChunkLoop(_, _, _, _, _, _, _, _)
ChunkLoop(h, expr, k, i, root_, st, cg, ub) ==
  IF i >= (k + 1) * cg.group_size
    THEN IF st.has_prior_to /\ st.has_same
           THEN Fail(h, "!(has_prior_to && has_same)")
           ELSE Done(h, root_)
  ELSE
    LET ch == h[expr].ch[i + 1] IN
    IF h[ch].type # "store" THEN Fail(h, "ch->type == NodeType::store")
    ELSE
      LET h1  == [h EXCEPT ![root_].members = Append(@, ch)]
          mem == h1[root_].members
          inb == i + 1 <= Len(mem)
          isPrior == IF inb THEN prior_to(h1, mem[i], mem[i + 1])
                            ELSE ub = "prior_to"
          isSame  == IF inb THEN AddressEq(h1[mem[i]].addr, h1[mem[i + 1]].addr)
                            ELSE ub = "same"
      IN
      IF ~(i > k * cg.group_size)
        THEN ChunkLoop(h1, expr, k, i + 1, root_, st, cg, ub)
      ELSE IF ~inb /\ ub = "crash"
        THEN Fail(h1, "read past the end of root->members")
      ELSE IF isPrior
        THEN ChunkLoop(h1, expr, k, i + 1, root_,
                       [st EXCEPT !.has_prior_to = TRUE], cg, ub)
      ELSE IF isSame
        THEN ChunkLoop(h1, expr, k, i + 1, root_,
                       [st EXCEPT !.has_same = TRUE], cg, ub)
      ELSE Fail(h1, "Addresses in SIMD load should be either identical or neighbouring.")

\* The loop over k of vectorize(Expr&, int, int)
RECURSIVE VectorizeChunks(_, _, _, _, _, _, _)
VectorizeChunks(h, expr, combined, k, cg, s2v, ub) ==
  IF k >= Len(h[expr].ch) \div cg.group_size THEN Done(h, combined)
  ELSE
    LET root_ == Len(h) + 1
        h1    == Append(h, [NewNode("store") EXCEPT !.is_vectorized = TRUE])
        c     == ChunkLoop(h1, expr, k, k * cg.group_size, root_,
                           [has_prior_to |-> FALSE, has_same |-> FALSE], cg, ub)
    IN
    IF ~c.ok THEN c
    ELSE
      LET r == VectorizeExpr(c.heap, root_, cg, s2v) IN
      IF ~r.ok THEN r
      ELSE VectorizeChunks([r.heap EXCEPT ![combined].ch = Append(@, r.expr)],
                           expr, combined, k + 1, cg, s2v, ub)

\* std::map<Expr, Expr> scalar_to_vector after clear(); nothing inserts into it
scalar_to_vector == <<>>

\* Expr vectorize(Expr &expr, int group_size, int num_groups)
Vectorize(h, expr, cg, ub) ==
  IF cg.group_size * cg.num_groups # cg.simd_width
    THEN Fail(h, "group_size * num_groups == simd_width")
  ELSE IF Len(h[expr].ch) % cg.group_size # 0
    THEN Fail(h, "expr->ch.size() % group_size == 0")
  ELSE IF h[expr].type # "combine"
    THEN Fail(h, "expr->type == NodeType::combine")
  ELSE
    LET combined == Len(h) + 1
        h1 == Append(h, [NewNode("combine") EXCEPT !.is_vectorized = TRUE])
    IN  VectorizeChunks(h1, expr, combined, 0, cg, scalar_to_vector, ub)

-----------------------------------------------------------------------------
(* CodeGen::code_gen, vector mode *)

\* One line of the emitted loop body.  op is "load" (auto V_immediate =
\* intr(&stream[imax * n + stride * g + offset])), "copy" (auto V =
\* V_immediate), "shuffle" (auto V = intr(V_immediate, V_immediate, imm)),
\* "binary" (auto V = lhs bop rhs) or "store" (intr(&stream[...], lhs)).
\* node is the vectorized node that emitted the line.
Instr(op, node, var) ==
  [op |-> op, node |-> node, var |-> var, intr |-> "", stream |-> 0,
   imax |-> 0, stride |-> 0, offset |-> 0, lhs |-> NoName, rhs |-> NoName,
   bop |-> "", imm |-> ""]

\* CodeGen::binary_ops as run fills it
binary_ops ==
  [t \in BinaryTypes |->
     CASE t = "add" -> "+" [] t = "sub" -> "-" [] t = "mul" -> "*" [] t = "div" -> "/"]

\* get_vectorized_address: the stream, the three coefficients of the index
WithAddress(ins, addr, cg) ==
  [ins EXCEPT
     !.stream = addr.stream_id,
     !.imax   = addr.coeff_imax,
     !.stride = addr.coeff_i * cg.num_groups +
                CDiv(cg.group_size, addr.coeff_aosoa_group_size) *
                addr.coeff_aosoa_stride,
     !.offset = addr.coeff_const]

load_instr(simd_width) ==
  IF simd_width = 8 THEN "_mm256_load_ps" ELSE "_mm512_load_ps"

store_instr(simd_width) ==
  IF simd_width = 8 THEN "_mm256_store_ps" ELSE "_mm512_store_ps"

\* the intrinsic written by the emit_shuffle lambda
shuffle_instr(simd_width) == "_mm256_shuffle_ps"

\* CodeGen::create_variable: s = [ok, err, heap, var_count, code, flags]
GFail(s, e) == [s EXCEPT !.ok = FALSE, !.err = e]

Emit(s, ins) == [s EXCEPT !.code = Append(@, ins)]

\* The load branch of code_gen.  flags records, per emitted load, the value
\* of needs_shuffle when the branch is left.
CodeGenLoad(s, e, cg) ==
  LET x    == s.heap[e]
      mem  == x.members
      offsets == [i \in 1..Len(mem) |-> offset(s.heap[mem[i]].addr)]
      addr == x.addr
      rem  == CMod(addr.coeff_const, cg.simd_width)
      aligned == [addr EXCEPT !.coeff_const = @ - rem]
      s1   == Emit(s, [WithAddress(Instr("load", e, x.var_name), aligned, cg)
                         EXCEPT !.intr = load_instr(cg.simd_width)])
      copy == Instr("copy", e, x.var_name)
      shuffle(imm) ==
        [Emit(s1, [Instr("shuffle", e, x.var_name) EXCEPT
                     !.intr = shuffle_instr(cg.simd_width), !.imm = imm])
           EXCEPT !.flags = Append(@, [var |-> x.var_name, needs_shuffle |-> FALSE])]
      keep(t) == [t EXCEPT !.flags =
                    Append(@, [var |-> x.var_name, needs_shuffle |-> rem # 0])]
  IN
  IF \E i \in 1..(Len(mem) - 1) :
        ~same_type(s.heap[mem[i]].addr, s.heap[mem[i + 1]].addr)
    THEN GFail(s, "members[i]->addr.same_type(members[i + 1]->addr)")
  ELSE IF cg.num_groups # addr.coeff_aosoa_group_size
    THEN GFail(s, "i_stride == addr.coeff_aosoa_group_size")
  ELSE IF cg.group_size = 1 THEN keep(Emit(s1, copy))
  ELSE IF ~(cg.group_size <= 2) THEN GFail(s1, "group_size <= 2")
  ELSE
    LET offset_const == CMod(offsets[1], cg.simd_width)
        offset_inc   == offsets[2] - offsets[1]
    IN
    IF offset_const = 0 /\ offset_inc = 1
      THEN IF rem # 0 THEN GFail(Emit(s1, copy), "needs_shuffle == false")
                      ELSE keep(Emit(s1, copy))
    ELSE IF offset_inc = 0
      THEN IF offset_const = 0 THEN shuffle("0xA0")
           ELSE IF offset_const = 1 THEN shuffle("0xF5")
           ELSE GFail(s1, "TC_NOT_IMPLEMENTED")
    ELSE GFail(s1, "TC_NOT_IMPLEMENTED")

\* The dispatch of code_gen on expr->type, after the variable is named.
CodeGenEmit(s, e, cg) ==
  LET x == s.heap[e] IN
  IF x.type \in DOMAIN binary_ops
    THEN Emit(s, [Instr("binary", e, x.var_name) EXCEPT
                    !.lhs = s.heap[x.ch[1]].var_name,
                    !.rhs = s.heap[x.ch[2]].var_name,
                    !.bop = binary_ops[x.type]])
  ELSE IF x.type = "load" THEN CodeGenLoad(s, e, cg)
  ELSE IF x.type = "store"
    THEN Emit(s, [WithAddress(Instr("store", e, NoName), x.addr, cg) EXCEPT
                    !.intr = store_instr(cg.simd_width),
                    !.lhs = s.heap[x.ch[1]].var_name])
  ELSE IF x.type = "combine" THEN s
  ELSE GFail(s, "TC_NOT_IMPLEMENTED")

\* std::string create_variable(): the name handed out and the new count
create_variable(count) ==
  [ok |-> count < VarCap, name |-> count, count |-> count + 1]

RECURSIVE CodeGenExpr(_, _, _)
RECURSIVE CodeGenChildren(_, _, _, _)

\* void code_gen(Expr &expr)
CodeGenExpr(s, e, cg) ==
  LET x == s.heap[e] IN
  IF ~x.is_vectorized THEN GFail(s, "expr->is_vectorized")
  ELSE IF ~(Len(x.members) = 0 \/ Len(x.members) = cg.group_size)
    THEN GFail(s, "members.size() == 0 || members.size() == group_size")
  ELSE
    LET r == CodeGenChildren(s, e, 1, cg) IN
    IF ~r.ok THEN r
    ELSE IF r.heap[e].var_name # NoName THEN r
    ELSE
      LET v == create_variable(r.var_count) IN
      IF ~v.ok THEN GFail(r, "var_count < 10000")
      ELSE CodeGenEmit([r EXCEPT !.heap[e].var_name = v.name,
                                 !.var_count = v.count], e, cg)

\* the loop over expr->ch of code_gen
CodeGenChildren(s, e, i, cg) ==
  IF i > Len(s.heap[e].ch) THEN s
  ELSE
    LET c == s.heap[e].ch[i]
        r == IF c # 0 THEN CodeGenExpr(s, c, cg) ELSE s
    IN  IF ~r.ok THEN r ELSE CodeGenChildren(r, e, i + 1, cg)

-----------------------------------------------------------------------------
(* get_code_gen_id and CodeGen::run *)

\* get_code_gen_id returning id where the source returns id++
get_code_gen_id_no_increment(id) ==
  [ok |-> id < KernelIdCap, ret |-> id, next |-> id]

\* inline int get_code_gen_id(): TC_ASSERT(id < 10000); return id++;
get_code_gen_id(id) == [ok |-> id < KernelIdCap, ret |-> id, next |-> id + 1]

NoConfig == [mode |-> "", simd_width |-> 0, group_size |-> 0, num_groups |-> 0]

\* What a call of run leaves behind.  status is "ok" (the source was returned)
\* or "abort"; id is the id the call got (-1 if it got none); func and step
\* are the numbers in the function name and in "i += {}"; body is the loop
\* body; heap is the arena after the call and vroot the vectorized root.
NoResult ==
  [status |-> "none", err |-> "", cfg |-> NoConfig, id |-> -1, next_id |-> 0,
   var_count |-> 0, heap |-> <<>>, vroot |-> 0, func |-> -1, step |-> 0,
   body |-> <<>>, flags |-> <<>>]

\* std::string run(Expr &expr, int group_size) on a CodeGen with the given
\* mode, simd_width and var_count, with static_id the allocator's counter.
Run(h, expr, static_id, count, mode, simd_width, group_size, ub) ==
  LET base == [NoResult EXCEPT !.status = "abort", !.heap = h,
                 !.next_id = static_id, !.var_count = count,
                 !.cfg = [NoConfig EXCEPT !.mode = mode,
                                          !.simd_width = simd_width,
                                          !.group_size = group_size]]
  IN
  IF mode # "vector" THEN [base EXCEPT !.err = "mode == Mode::vector"]
  ELSE IF group_size = 0 THEN [base EXCEPT !.err = "group_size != 0"]
  ELSE
    LET cg  == [mode |-> mode, simd_width |-> simd_width,
                group_size |-> group_size,
                num_groups |-> CDiv(simd_width, group_size)]
        idr == get_code_gen_id(static_id)
    IN
    IF ~idr.ok THEN [base EXCEPT !.cfg = cg, !.err = "id < 10000"]
    ELSE
      LET got == [base EXCEPT !.cfg = cg, !.id = idr.ret, !.next_id = idr.next]
          v   == Vectorize(h, expr, cg, ub)
      IN
      IF ~v.ok THEN [got EXCEPT !.err = v.err, !.heap = v.heap]
      ELSE
        LET g == CodeGenExpr([ok |-> TRUE, err |-> "", heap |-> v.heap,
                              var_count |-> count, code |-> <<>>,
                              flags |-> <<>>], v.expr, cg)
        IN
        IF ~g.ok
          THEN [got EXCEPT !.err = g.err, !.heap = g.heap,
                           !.var_count = g.var_count]
          ELSE [got EXCEPT !.status = "ok", !.heap = g.heap, !.vroot = v.expr,
                           !.var_count = g.var_count, !.func = idr.ret,
                           !.step = cg.num_groups, !.body = g.code,
                           !.flags = g.flags]

-----------------------------------------------------------------------------
(* CodeGen::extract_instructions, continuous_loads and SLP *)

RECURSIVE Walk(_, _, _)
RECURSIVE WalkChildren(_, _, _, _)

\* the walk lambda of extract_instructions: w = [visited, inst]
Walk(h, e, w) ==
  IF e \in w.visited THEN w
  ELSE LET w1 == WalkChildren(h, e, 1, [w EXCEPT !.visited = @ \cup {e}])
       IN  [w1 EXCEPT !.inst = Append(@, e)]

WalkChildren(h, e, i, w) ==
  IF i > Len(h[e].ch) THEN w
  ELSE WalkChildren(h, e, i + 1, Walk(h, h[e].ch[i], w))

extract_instructions(h, root_expr) ==
  Walk(h, root_expr, [visited |-> {}, inst |-> <<>>]).inst

SetMin(S) == CHOOSE x \in S : \A y \in S : x <= y

\* the for loop over j inside continuous_loads: the positions j the scan
\* does not skip and inst[i] is prior to.  It skips every j while inst[i]
\* (not inst[j]) is no load.  The scan takes the first of them.
Candidates_ignoring_grouped(h, ins, grp, i) ==
  {j \in 1..Len(ins) :
     /\ ~(i = j \/ h[ins[i]].type # "load")
     /\ prior_to(h, ins[i], ins[j])}

Candidates(h, ins, grp, i) ==
  {j \in 1..Len(ins) :
     /\ ~(grp[j] \/ i = j \/ h[ins[i]].type # "load")
     /\ prior_to(h, ins[i], ins[j])}

\* the while (1) loop of continuous_loads
RECURSIVE ContinuousLoop(_, _, _, _, _)
ContinuousLoop(h, ins, grp, i, ret) ==
  LET J == Candidates(h, ins, grp, i)
  IN  IF J = {} THEN ret
      ELSE ContinuousLoop(h, ins, grp, SetMin(J), Append(ret, SetMin(J)))

continuous_loads(h, ins, grp, i) ==
  IF grp[i] \/ h[ins[i]].type # "load" THEN <<>>
  ELSE ContinuousLoop(h, ins, grp, i, <<i>>)

\* the while (true) loop of SLP: s = [grouped, groups]
RECURSIVE SLPLoop(_, _, _)
SLPLoop(h, ins, s) ==
  LET len(i) == Len(continuous_loads(h, ins, s.grouped, i))
      cand   == {i \in 1..Len(ins) :
                   /\ len(i) > 0
                   /\ \A k \in 1..Len(ins) : len(k) <= len(i)
                   /\ \A k \in 1..(i - 1) : len(k) < len(i)}
  IN
  IF cand = {} THEN s
  ELSE
    LET C == continuous_loads(h, ins, s.grouped, SetMin(cand)) IN
    SLPLoop(h, ins,
            [grouped |-> [j \in 1..Len(ins) |->
                            s.grouped[j] \/ \E c \in 1..Len(C) : C[c] = j],
             groups  |-> Append(s.groups, C)])

\* void SLP(Expr expr, int group_size), on a CodeGen holding old_groups
SLP(h, expr, old_groups) ==
  LET ins == extract_instructions(h, expr)
      s   == SLPLoop(h, ins, [grouped |-> [j \in 1..Len(ins) |-> FALSE],
                              groups  |-> old_groups])
  IN  [inst |-> ins, grouped |-> s.grouped, groups |-> s.groups]

\* The locals of a call of SLP taken one loop iteration at a time:
\*   pc                    "idle", "for", "while", "done"
\*   group_size            the argument of the call
\*   maximum_length, inst_with_max_length, C
\*                         the locals of the while (true) body
\*   i                     the index of the for loop over inst
\*   cl_i, ret             i and ret of the call continuous_loads(i)
\*   warned                TC_WARN_IF fired in this call
\*   calls, first          history: the number of SLP calls on this CodeGen
\*                         and the length of groups when this call began
\* Positions are 1-based, so inst_with_max_length = 0 is the source's -1.
NoCall ==
  [pc |-> "idle", group_size |-> 0, maximum_length |-> 0,
   inst_with_max_length |-> 0, C |-> <<>>, i |-> 0, cl_i |-> 0, ret |-> <<>>,
   warned |-> FALSE, calls |-> 0, first |-> 0]

-----------------------------------------------------------------------------
(* The inputs the model draws from *)

\* addresses a user passes to load(): two offsets on stream 0, an AOSOA
\* layout, the default-constructed Address and a stream past the last one
LoadAddrs ==
  {Addr(0, 1, 0, 0, 0, 0), Addr(0, 1, 0, 1, 0, 0), Addr(0, 1, 1, 8, 8, 8),
   DefaultAddress, Addr(3, 1, 0, 0, 0, 0)}

\* addresses a user passes to store()
StoreAddrs ==
  {Addr(0, 1, 0, 0, 0, 0), Addr(0, 1, 0, 1, 0, 0), Addr(1, 1, 1, 0, 4, 4),
   Addr(1, 1, 1, 0, 4, 7), DefaultAddress, Addr(3, 1, 0, 0, 0, 0)}

BuilderOps == {"add", "mul"}
Modes == {"scalar", "vector"}
SimdWidths == {8, 16}
GroupSizes == {0, 1, 2}

ValueNodes(h) == {i \in 1..Len(h) : h[i].type \notin {"store", "combine"}}
StoreNodesOf(h) == {i \in 1..Len(h) : h[i].type = "store"}

\* A read past the end of root->members happens only from the second chunk
\* on, and only when a chunk has a second member.
UBChoices(h, r, group_size) ==
  IF r # 0 /\ group_size >= 2 /\ Len(h[r].ch) >= 2 * group_size
    THEN UBOutcomes ELSE {"crash"}

-----------------------------------------------------------------------------
(* The builder calls *)

Init ==
  /\ nodes = <<>>
  /\ root = 0
  /\ builder = "none"
  /\ code_gen_id = 0
  /\ var_count = 0
  /\ last_id = -1
  /\ result = NoResult
  /\ prev = NoResult
  /\ inst = <<>>
  /\ groups = <<>>
  /\ grouped = <<>>
  /\ phase = "build"
  /\ slp = NoCall

compiler == <<code_gen_id, var_count, last_id, result, prev, inst, groups,
              grouped, phase, slp>>

\* load(addr)
Load(a) ==
  /\ phase = "build"
  /\ Cardinality(ValueNodes(nodes)) < MaxExprs
  /\ IF LoadOk(a)
       THEN nodes' = Append(nodes, LoadNode(a)) /\ builder' = "ok"
       ELSE nodes' = nodes /\ builder' = "abort"
  /\ UNCHANGED <<root, compiler>>

\* Expr(float64 val)
Constant ==
  /\ phase = "build"
  /\ Cardinality(ValueNodes(nodes)) < MaxExprs
  /\ nodes' = Append(nodes, NewNode("constant"))
  /\ builder' = "ok"
  /\ UNCHANGED <<root, compiler>>

\* Expr::operator+, -, *, /
Binary(t, x, y) ==
  /\ phase = "build"
  /\ Cardinality(ValueNodes(nodes)) < MaxExprs
  /\ nodes' = Append(nodes, BinaryNode(t, x, y))
  /\ builder' = "ok"
  /\ UNCHANGED <<root, compiler>>

\* ret.store(e, addr)
Store(e, a) ==
  /\ phase = "build"
  /\ Cardinality(StoreNodesOf(nodes)) < MaxStores
  /\ LET b == StoreNodes(nodes, root, e, a) IN
       nodes' = b.nodes /\ root' = b.root
  /\ builder' = "ok"
  /\ UNCHANGED compiler

-----------------------------------------------------------------------------
(* The compiler calls *)

\* what a call of run leaves in the state: the scalar nodes are the first
\* Len(nodes) cells of the arena the call leaves behind
AfterRun(r) ==
  /\ result' = r
  /\ nodes' = SubSeq(r.heap, 1, Len(nodes))
  /\ code_gen_id' = r.next_id
  /\ var_count' = r.var_count
  /\ last_id' = IF r.id # -1 THEN r.id ELSE last_id
  /\ UNCHANGED <<root, builder, inst, groups, grouped, slp>>

\* CodeGen(mode, simd_width).run(root, group_size) on the CodeGen in use
Compile(mode, simd_width, group_size, ub) ==
  /\ phase = "build"
  /\ root # 0
  /\ AfterRun(Run(nodes, root, code_gen_id, var_count, mode, simd_width,
                  group_size, ub))
  /\ prev' = prev
  /\ phase' = "ran"

\* a second run(root, group_size) on the same CodeGen
CompileAgain(ub) ==
  /\ phase = "ran"
  /\ AfterRun(Run(nodes, root, code_gen_id, var_count, result.cfg.mode,
                  result.cfg.simd_width, result.cfg.group_size, ub))
  /\ prev' = result
  /\ phase' = "ran2"

\* a second run(root, group_size) on a newly constructed CodeGen
CompileFresh(ub) ==
  /\ phase = "ran"
  /\ AfterRun(Run(nodes, root, code_gen_id, 0, result.cfg.mode,
                  result.cfg.simd_width, result.cfg.group_size, ub))
  /\ prev' = result
  /\ phase' = "ran2"

\* CodeGen().SLP(root, group_size)
Group ==
  /\ phase = "build"
  /\ root # 0
  /\ LET s == SLP(nodes, root, groups) IN
       /\ inst' = s.inst
       /\ grouped' = s.grouped
       /\ groups' = s.groups
  /\ phase' = "slp"
  /\ UNCHANGED <<nodes, root, builder, code_gen_id, var_count, last_id,
                 result, prev, slp>>

Next ==
  \/ \E a \in LoadAddrs : Load(a)
  \/ Constant
  \/ \E t \in BuilderOps : \E x, y \in ValueNodes(nodes) : Binary(t, x, y)
  \/ \E e \in ValueNodes(nodes) : \E a \in StoreAddrs : Store(e, a)
  \/ \E m \in Modes : \E w \in SimdWidths : \E g \in GroupSizes :
       \E ub \in UBChoices(nodes, root, g) : Compile(m, w, g, ub)
  \/ Group

Spec == Init /\ [][Next]_vars

-----------------------------------------------------------------------------
(* Two runs on one root, and the kernel-id allocator over a whole process *)

\* kernels built by the builder calls above
Kernel(h) == [nodes |-> h, root |-> 0]
WithLoad(k, a) == [k EXCEPT !.nodes = Append(@, LoadNode(a))]
WithStore(k, e, a) == StoreNodes(k.nodes, k.root, e, a)

\* store(load(stream0[i]), stream1[i])
KernelCopy ==
  WithStore(WithLoad(Kernel(<<>>), Addr(0, 1, 0, 0, 0, 0)), 1,
            Addr(1, 1, 0, 0, 0, 0))

\* one load stored to two neighbouring addresses
KernelShared ==
  WithStore(WithStore(WithLoad(Kernel(<<>>), Addr(0, 1, 0, 0, 0, 0)), 1,
                      Addr(1, 1, 0, 0, 0, 0)), 1, Addr(1, 1, 0, 1, 0, 0))

\* two pairs of stores (a[0], a[1]), (a[2], a[3]) reading the pair b[0], b[1]
KernelPairs ==
  LET k0 == WithLoad(WithLoad(Kernel(<<>>), Addr(0, 1, 0, 0, 0, 0)),
                     Addr(0, 1, 0, 1, 0, 0))
      k1 == WithStore(k0, 1, Addr(1, 1, 0, 0, 0, 0))
      k2 == WithStore(k1, 2, Addr(1, 1, 0, 1, 0, 0))
      k3 == WithStore(k2, 1, Addr(1, 1, 0, 2, 0, 0))
  IN  WithStore(k3, 2, Addr(1, 1, 0, 3, 0, 0))

\* store(load(b[0]) + load(b[1]), a[0])
KernelSum ==
  LET k0 == WithLoad(WithLoad(Kernel(<<>>), Addr(0, 1, 0, 0, 0, 0)),
                     Addr(0, 1, 0, 1, 0, 0))
      k1 == [k0 EXCEPT !.nodes = Append(@, BinaryNode("add", 1, 2))]
  IN  WithStore(k1, 3, Addr(1, 1, 0, 0, 0, 0))

SampleKernels == {KernelCopy, KernelShared, KernelPairs, KernelSum}

InitWith(k) ==
  /\ nodes = k.nodes
  /\ root = k.root
  /\ builder = "ok"
  /\ code_gen_id = 0
  /\ var_count = 0
  /\ last_id = -1
  /\ result = NoResult
  /\ prev = NoResult
  /\ inst = <<>>
  /\ groups = <<>>
  /\ grouped = <<>>
  /\ phase = "build"
  /\ slp = NoCall

InitTwice == \E k \in SampleKernels : InitWith(k)

NextTwice ==
  \/ \E m \in Modes : \E w \in SimdWidths : \E g \in GroupSizes :
       \E ub \in UBChoices(nodes, root, g) : Compile(m, w, g, ub)
  \/ \E ub \in UBChoices(nodes, root, result.cfg.group_size) : CompileAgain(ub)
  \/ \E ub \in UBChoices(nodes, root, result.cfg.group_size) : CompileFresh(ub)

SpecTwice == InitTwice /\ [][NextTwice]_vars

\* CodeGen(mode, simd_width).run(root, group_size) on a new CodeGen, any
\* number of times in one process
CompileNew(mode, simd_width, group_size, ub) ==
  /\ root # 0
  /\ AfterRun(Run(nodes, root, code_gen_id, 0, mode, simd_width, group_size, ub))
  /\ prev' = prev
  /\ phase' = "ran"

InitIds == InitWith(KernelCopy)

NextIds ==
  \E m \in Modes : \E g \in GroupSizes :
    \E ub \in UBChoices(nodes, root, g) : CompileNew(m, 8, g, ub)

SpecIds == InitIds /\ [][NextIds]_vars

-----------------------------------------------------------------------------
(* SLP taken one loop iteration at a time *)

\* SLP(root, group_size) is entered on a CodeGen, a new one or one that has
\* returned from SLP before: inst and grouped are set up, groups is left as
\* it is, and the first pass of while (true) begins.
SLPBegin(group_size) ==
  /\ root # 0
  /\ \/ phase = "build"
     \/ phase = "slp" /\ slp.calls < MaxCalls
  /\ inst' = extract_instructions(nodes, root)
  /\ grouped' = [j \in 1..Len(inst') |-> FALSE]
  /\ slp' = [NoCall EXCEPT !.pc = "for", !.group_size = group_size, !.i = 1,
                           !.calls = slp.calls + 1, !.first = Len(groups)]
  /\ phase' = "grouping"
  /\ UNCHANGED <<nodes, root, builder, code_gen_id, var_count, last_id,
                 result, prev, groups>>

\* if (c.size() > maximum_length) { ... } for the run c that
\* continuous_loads(i) returned
Picked(s, c) ==
  IF Len(c) > s.maximum_length
    THEN [s EXCEPT !.maximum_length = Len(c), !.inst_with_max_length = s.i,
                   !.C = c]
    ELSE s

\* one iteration of the for loop over inst: continuous_loads(i) is called;
\* it returns the empty run at once, or enters its while (1) loop
Enumerate ==
  /\ slp.pc = "for"
  /\ slp.i <= Len(inst)
  /\ IF grouped[slp.i] \/ nodes[inst[slp.i]].type # "load"
       THEN slp' = [Picked(slp, <<>>) EXCEPT !.i = @ + 1]
       ELSE slp' = [slp EXCEPT !.pc = "while", !.cl_i = slp.i,
                               !.ret = <<slp.i>>]
  /\ UNCHANGED <<nodes, root, builder, code_gen_id, var_count, last_id,
                 result, prev, inst, groups, grouped, phase>>

\* one iteration of while (1) in continuous_loads: the scan over j finds the
\* first candidate and goes on from it, or finds none and the run is returned
\* to the for loop of SLP
ContinuousLoadsStep ==
  /\ slp.pc = "while"
  /\ LET J == Candidates(nodes, inst, grouped, slp.cl_i) IN
       IF J # {}
         THEN slp' = [slp EXCEPT !.ret = Append(@, SetMin(J)),
                                 !.cl_i = SetMin(J)]
         ELSE slp' = [Picked(slp, slp.ret) EXCEPT !.pc = "for", !.i = @ + 1,
                                                  !.cl_i = 0, !.ret = <<>>]
  /\ UNCHANGED <<nodes, root, builder, code_gen_id, var_count, last_id,
                 result, prev, inst, groups, grouped, phase>>

\* grouped[C[i]] = true for every i
Mark(grp, c) ==
  [j \in 1..Len(grp) |-> grp[j] \/ \E p \in 1..Len(c) : c[p] = j]

\* the for loop over inst is through: the longest run becomes a group and
\* while (true) starts over, or there is none and SLP returns
Extend ==
  /\ slp.pc = "for"
  /\ slp.i > Len(inst)
  /\ IF slp.inst_with_max_length # 0
       THEN /\ groups' = Append(groups, slp.C)
            /\ grouped' = Mark(grouped, slp.C)
            /\ slp' = [slp EXCEPT
                         !.warned = @ \/ Len(slp.C) % slp.group_size # 0,
                         !.maximum_length = 0, !.inst_with_max_length = 0,
                         !.C = <<>>, !.i = 1]
            /\ phase' = phase
       ELSE /\ slp' = [slp EXCEPT !.pc = "done"]
            /\ phase' = "slp"
            /\ UNCHANGED <<groups, grouped>>
  /\ UNCHANGED <<nodes, root, builder, code_gen_id, var_count, last_id,
                 result, prev, inst>>

\* store(load(stream0[i + offs[k]]), dst) for k = 1..n, in this order; dst is
\* stream1[i + k - 1], or with shift the neighbour stream0[i + offs[k] + 1]
RECURSIVE KernelOfLoads(_, _, _)
KernelOfLoads(offs, shift, n) ==
  IF n = 0 THEN Kernel(<<>>)
  ELSE LET k0 == KernelOfLoads(offs, shift, n - 1)
           k1 == WithLoad(k0, Addr(0, 1, 0, offs[n], 0, 0))
       IN  WithStore(k1, Len(k1.nodes),
                     IF shift THEN Addr(0, 1, 0, offs[n] + 1, 0, 0)
                              ELSE Addr(1, 1, 0, n - 1, 0, 0))

\* four loads with offsets 0, 1, 2, 5
KernelRuns == KernelOfLoads(<<0, 1, 2, 5>>, FALSE, 4)

GrouperKernels ==
  {KernelOfLoads(offs, shift, Len(offs)) :
     offs \in UNION {[1..n -> 0..MaxOffset] : n \in 1..MaxLoads},
     shift \in BOOLEAN}
  \cup SampleKernels \cup {KernelRuns}

SLPGroupSizes == {1, 2}

InitSLP == \E k \in GrouperKernels : InitWith(k)

\* the steps SLP takes by itself once it is called
SLPStep == Enumerate \/ ContinuousLoadsStep \/ Extend

NextSLP ==
  \/ \E g \in SLPGroupSizes : SLPBegin(g)
  \/ Enumerate
  \/ ContinuousLoadsStep
  \/ Extend

\* SLP is straight-line sequential code: once called, its next loop
\* iteration is always taken.  Calling it (again) is up to the user.
SpecSLP == InitSLP /\ [][NextSLP]_vars /\ WF_vars(SLPStep)

-----------------------------------------------------------------------------
(* What the claims speak about *)

RECURSIVE ReachFrom(_, _, _)
ReachFrom(h, frontier, seen) ==
  IF frontier = {} THEN seen
  ELSE LET x == CHOOSE y \in frontier : TRUE
           new == {h[x].ch[i] : i \in 1..Len(h[x].ch)} \ (seen \cup {x, 0})
       IN  ReachFrom(h, (frontier \ {x}) \cup new, seen \cup {x})

\* the vectorized nodes reachable from the root the last run returned
Reachable == ReachFrom(result.heap, {result.vroot}, {})

\* the packs among them
Packs == {v \in Reachable : result.heap[v].members # <<>>}

MemberAddrs(v) ==
  [i \in 1..Len(result.heap[v].members) |->
     result.heap[result.heap[v].members[i]].addr]

Completed == phase \in {"ran", "ran2"} /\ result.status = "ok"

\* the last run got as far as the chunk loop of vectorize
ReachedChunks ==
  /\ phase = "ran"
  /\ result.id # -1
  /\ result.cfg.group_size * result.cfg.num_groups = result.cfg.simd_width
  /\ Len(nodes[root].ch) % result.cfg.group_size = 0

ChunkAddrs(k) ==
  [i \in 1..result.cfg.group_size |->
     nodes[nodes[root].ch[k * result.cfg.group_size + i]].addr]

NumChunks == Len(nodes[root].ch) \div result.cfg.group_size

\* all six fields equal
Identical(a, b) == a = b

Neighbouring(a, b) == same_type(a, b) /\ a.coeff_const + 1 = b.coeff_const

ChunkOrdered(k) ==
  LET c == ChunkAddrs(k) IN
  \/ \A i \in 1..(Len(c) - 1) : Identical(c[i], c[i + 1])
  \/ \A i \in 1..(Len(c) - 1) : Neighbouring(c[i], c[i + 1])

AddressErrors ==
  {"Addresses in SIMD load should be either identical or neighbouring.",
   "!(has_prior_to && has_same)"}

\* C1: vectorize accepts a chunk of stores whenever all its consecutive address
\* pairs are identical (six fields equal) or all are prior-to, and in every
\* other case the run aborts and returns no vectorized root.
C1_ChunkAcceptance ==
  ReachedChunks =>
    /\ (\A k \in 0..(NumChunks - 1) : ChunkOrdered(k))
         => result.err \notin AddressErrors
    /\ (\E k \in 0..(NumChunks - 1) : ~ChunkOrdered(k))
         => (result.status = "abort" /\ result.vroot = 0)

\* C2: after a run that completes, the member addresses of every reachable
\* pack (store, load or arithmetic) are pairwise same-type.
C2_PacksSameType ==
  Completed =>
    \A v \in Packs :
      \A i, j \in 1..Len(MemberAddrs(v)) :
        same_type(MemberAddrs(v)[i], MemberAddrs(v)[j])

\* C3: packs are memoized by their first member: no two distinct reachable
\* vectorized nodes have the same members[0], and no two emitted loads come
\* from the same scalar pack.
C3_MemoizedByFirstMember ==
  Completed =>
    /\ \A u, v \in Packs :
         u # v => result.heap[u].members[1] # result.heap[v].members[1]
    /\ \A i, j \in 1..Len(result.body) :
         (i # j /\ result.body[i].op = "load" /\ result.body[j].op = "load")
           => result.heap[result.body[i].node].members #
              result.heap[result.body[j].node].members

\* C4: for group_size 1 and 2 alike, no emitted load leaves emission with the
\* shuffle-needed flag set, and a load whose constant offset is no multiple of
\* simd_width has a shuffle emitted for it.
C4_ShuffleFlagCleared ==
  Completed =>
    /\ \A f \in 1..Len(result.flags) : ~result.flags[f].needs_shuffle
    /\ \A i \in 1..Len(result.body) :
         (/\ result.body[i].op = "load"
          /\ CMod(result.heap[result.body[i].node].addr.coeff_const,
                  result.cfg.simd_width) # 0)
           => \E j \in 1..Len(result.body) :
                /\ result.body[j].op = "shuffle"
                /\ result.body[j].var = result.body[i].var

BadStream(a) == ~initialized(a) \/ a.stream_id < 0 \/ a.stream_id >= NumStreams

\* C5: a root holding a load or a store with the sentinel stream id or a
\* stream id outside [0, 3) never compiles: the run aborts, and the source a
\* run returns references only stream00, stream01 and stream02.
C5_StreamsChecked ==
  Completed =>
    /\ \A x \in 1..Len(nodes) :
         nodes[x].type \in {"load", "store"} => ~BadStream(nodes[x].addr)
    /\ \A i \in 1..Len(result.body) :
         result.body[i].op \in {"load", "store"}
           => result.body[i].stream \in 0..(NumStreams - 1)

\* C6: every group SLP records holds loads only, and each consecutive pair of
\* a group is prior-to.
C6_GroupsAreLoadRuns ==
  phase = "slp" =>
    \A g \in 1..Len(groups) :
      /\ \A p \in 1..Len(groups[g]) : nodes[inst[groups[g][p]]].type = "load"
      /\ \A p \in 1..(Len(groups[g]) - 1) :
           prior_to(nodes, inst[groups[g][p]], inst[groups[g][p + 1]])

\* C7: every run that gets a kernel id gets the allocator's current counter,
\* which is above every id handed out before and inside [0, 10000), and the
\* counter moves on by one; a run that gets none leaves the counter alone;
\* once 10000 ids are out, a run aborts with no id and no source.
C7_KernelIds ==
  [][/\ result'.id # -1 =>
          /\ result'.id = code_gen_id
          /\ result'.id > last_id
          /\ result'.id \in 0..(KernelIdCap - 1)
          /\ code_gen_id' = code_gen_id + 1
          /\ last_id' = result'.id
     /\ result'.id = -1 => (code_gen_id' = code_gen_id /\ last_id' = last_id)
     /\ code_gen_id >= KernelIdCap =>
          /\ result'.status = "abort"
          /\ result'.id = -1
          /\ result'.body = <<>>
          /\ result'.func = -1]_vars

\* a run was refused for want of a kernel id, after id 9999 had been handed out
C7_Witness ==
  /\ code_gen_id = KernelIdCap
  /\ last_id = KernelIdCap - 1
  /\ result.status = "abort"
  /\ result.err = "id < 10000"

\* the variable names of a loop body, in increasing order of creation
NamesOf(body) ==
  UNION {{body[i].var, body[i].lhs, body[i].rhs} : i \in 1..Len(body)} \ {NoName}

\* a loop body with every variable renamed to its rank among the names used
Canonical(body) ==
  LET rank(x) == IF x = NoName THEN NoName
                 ELSE Cardinality({y \in NamesOf(body) : y < x})
  IN  [i \in 1..Len(body) |->
         [body[i] EXCEPT !.var = rank(@), !.lhs = rank(@), !.rhs = rank(@)]]

SameOutcome(a, b) ==
  /\ a.status = b.status
  /\ a.status = "ok" =>
       (a.step = b.step /\ Canonical(a.body) = Canonical(b.body))

\* C8: two runs on one root with the same simd_width and group_size, on the
\* same CodeGen or on a new one, both abort or both return the same loop
\* body up to renaming, and the scalar nodes are as the user built them.
C8_Idempotent ==
  phase = "ran2" =>
    /\ SameOutcome(prev, result)
    /\ [nodes |-> nodes, root |-> root] \in SampleKernels

Family(w) ==
  IF w = 16 THEN {"_mm512_load_ps", "_mm512_store_ps", "_mm512_shuffle_ps"}
            ELSE {"_mm256_load_ps", "_mm256_store_ps", "_mm256_shuffle_ps"}

\* C9: every SIMD intrinsic of a returned source belongs to the family
\* simd_width selects: _mm512_* for 16, _mm256_* for 8.
C9_IntrinsicFamily ==
  Completed =>
    \A i \in 1..Len(result.body) :
      result.body[i].intr # "" =>
        result.body[i].intr \in Family(result.cfg.simd_width)

\* C10: for every emitted load or store whose constant offset is a multiple
\* of simd_width, the emitted index coeff_imax * n + stride * g + coeff_const
\* equals eval(g * num_groups, n) of the node's address, AOSOA included.
C10_AddressRefinement ==
  Completed =>
    \A i \in 1..Len(result.body) :
      LET ins == result.body[i]
          a   == result.heap[ins.node].addr
      IN  (/\ ins.op \in {"load", "store"}
           /\ initialized(a)
           /\ CMod(a.coeff_const, result.cfg.simd_width) = 0)
            => \A g \in 0..MaxG : \A n \in 0..MaxN :
                 ins.imax * n + ins.stride * g + ins.offset =
                 eval(a, g * result.cfg.num_groups, n)

\* the groups recorded by the SLP call in progress or just returned
Recorded == SubSeq(groups, slp.first + 1, Len(groups))

Members(g) == {g[p] : p \in 1..Len(g)}

PairwiseDisjoint(gs) ==
  \A a, b \in 1..Len(gs) : a # b => Members(gs[a]) \cap Members(gs[b]) = {}

EveryLoadOnce(gs) ==
  \A p \in 1..Len(inst) :
    nodes[inst[p]].type = "load"
      => Cardinality({a \in 1..Len(gs) : p \in Members(gs[a])}) = 1

\* C11: every call of continuous_loads returns, every call of SLP returns,
\* and when SLP has returned the groups that call recorded are pairwise
\* disjoint and every load of inst is in exactly one of them.
C11_SLPTerminatesWithPartition ==
  /\ (slp.pc = "while") ~> (slp.pc = "for")
  /\ (phase = "grouping") ~> (phase = "slp")
  /\ [](phase = "slp"
          => PairwiseDisjoint(Recorded) /\ EveryLoadOnce(Recorded))

\* a second SLP call on one CodeGen has returned with several groups, one of
\* them a run of three loads, and has warned about its length
C11_Witness ==
  /\ phase = "slp"
  /\ slp.calls = 2
  /\ slp.first > 0
  /\ slp.warned
  /\ Len(Recorded) >= 2
  /\ \E a \in 1..Len(Recorded) :
       /\ Len(Recorded[a]) = 3
       /\ \A p \in 1..3 : nodes[inst[Recorded[a][p]]].type = "load"

====
